---- MODULE Spec2Model ----
(***************************************************************************)
(* Model of the remark plugin remarkLinkCitations (lib/remark-link-        *)
(* citations): the visitor that splits text nodes at numeric citations     *)
(* "[1]" and the traversal of unist-util-visit that drives it.             *)
(*                                                                         *)
(* The document tree is a heap: nodes[i] is the object with identity i,    *)
(* children holds identities.  Strings are sequences of one-character      *)
(* strings; string indices in the operators below are 0-based as in        *)
(* JavaScript, Slice(s, a, b) is s.slice(a, b).                            *)
(***************************************************************************)
EXTENDS Integers, Sequences, FiniteSets, TLC

VARIABLES
    nodes,      \* the heap of mdast nodes, root is nodes[1]
    stack,      \* frames of visitParents: the parent being iterated and its offset
    pc,         \* "start" | "visiting" | "done"
    tree0,      \* the heap as it was handed to the transform
    scanned,    \* identities of the text nodes that reached the scan (line 23), in order
    declined,   \* identities of the text nodes the visitor returned for at line 15, in order
    replaced,   \* log of the splices (line 62), in order
    lastCall,   \* the last call of the visitor: what it was given, how it ended,
                \* and its locals createdNodes and lastIndex as it left them
    pass,       \* the number of the application of the transform to this tree
    panelKind,  \* the results panel being rendered: "updates", "policy", "budget"
    sources,    \* the markdown texts of the panel, one for each Markdown element
    cursor,     \* the Markdown element whose tree is being transformed, 0 before
    anchors,    \* the ids of the hidden anchor elements of the panel, in order
    parked,     \* a second invocation of the transform, while the first one runs
    env,        \* process.env.NEXT_PUBLIC_API_BASE, << >> when unset or empty
    endpoint,   \* the endpoint fetchFromEndpoint was called with
    request,    \* what fetchFromEndpoint handed to fetch
    response,   \* how the promise of fetch settled
    outcome,    \* how the promise of fetchFromEndpoint settled
    fpc,        \* fetchFromEndpoint: "idle" | "fetching" | "reading" | "readingError" | "settled"
    input,      \* InvoiceChat: the text of the textarea
    files,      \* InvoiceChat: the attached files
    isLoading,  \* InvoiceChat: a submit is being served
    selectedApi, \* InvoiceChat: the url of the endpoint chosen in the radio group
    results,    \* InvoiceChat: the state `response`, handed to ResultsDisplay as results
    submits,    \* the number of submit events of the form so far
    sent,       \* the number of calls of fetchFromEndpoint by onSubmit so far
    shown,      \* what ResultsDisplay returned when it last rendered
    isUploading, \* InvoiceChat: an upload is running
    batch,      \* onUpload: for each file of the call, how far its upload is
                \* and the calls of onProgress, onSuccess and onError made for it
    upc         \* onUpload: "idle" | "running" | "returned"

panelVars == <<panelKind, sources, cursor, anchors>>

clientVars == <<env, endpoint, request, response, outcome, fpc>>

chatVars == <<input, files, isLoading, selectedApi, results, submits, sent>>

uploadVars == <<isUploading, batch, upc>>

uiVars == <<chatVars, uploadVars, shown>>

\* the variables the traversal and the visitor never touch
others == <<pass, panelVars, parked, clientVars, uiVars>>

\* there is no second invocation
NoInvocation ==
    [nodes |-> << >>, tree0 |-> << >>, stack |-> << >>, pc |-> "idle",
     scanned |-> << >>, replaced |-> << >>, declined |-> << >>]

PairIdle == parked = NoInvocation

NoRequest == [url |-> << >>, method |-> "none", body |-> << >>]
NoResponse == [kind |-> "none"]
NoOutcome == [kind |-> "none"]

\* fetchFromEndpoint has not been called
ClientIdle ==
    /\ env = << >>
    /\ endpoint = << >>
    /\ request = NoRequest
    /\ response = NoResponse
    /\ outcome = NoOutcome
    /\ fpc = "idle"

\* null
Null == [kind |-> "null"]

NoView == [view |-> "none"]

\* InvoiceChat is not mounted
UiIdle ==
    /\ input = << >>
    /\ files = << >>
    /\ isLoading = FALSE
    /\ selectedApi = << >>
    /\ results = Null
    /\ submits = 0
    /\ sent = 0
    /\ shown = NoView
    /\ isUploading = FALSE
    /\ batch = << >>
    /\ upc = "idle"

\* no panel is being rendered
PanelIdle ==
    /\ panelKind = "none"
    /\ sources = << >>
    /\ cursor = 0
    /\ anchors = << >>

vars == <<nodes, stack, pc, tree0, scanned, replaced, declined, lastCall, others>>

\* ------------------------------------------------------------------------
\* Bounds
\* ------------------------------------------------------------------------
MaxLen == 4

\* the number of times the transform is applied to one tree
MaxPasses == 2

Alphabet == {"[", "]", "0", "1", "a"}

\* ------------------------------------------------------------------------
\* Strings
\* ------------------------------------------------------------------------
Slice(s, a, b) == SubSeq(s, a + 1, b)

\* \d of the regular expression
IsDigit(c) == c \in {"0", "1", "2", "3", "4", "5", "6", "7", "8", "9"}

RECURSIVE DigitRunEnd(_, _)
\* (\d+), greedy: the 0-based position just after the digits that start at p
DigitRunEnd(s, p) ==
    IF p < Len(s) /\ IsDigit(s[p + 1]) THEN DigitRunEnd(s, p + 1) ELSE p

\* a matcher that accepts an empty digit run, \[(\d*)\]
MatchEndEmptyDigits(s, p) ==
    IF p < Len(s) /\ s[p + 1] = "["
    THEN LET e == DigitRunEnd(s, p + 1)
         IN  IF e < Len(s) /\ s[e + 1] = "]" THEN e + 1 ELSE -1
    ELSE -1

\* /\[(\d+)\]/ anchored at p: the 0-based end (exclusive) of the match, -1 if none
MatchEnd(s, p) ==
    IF p < Len(s) /\ s[p + 1] = "["
    THEN LET e == DigitRunEnd(s, p + 1)
         IN  IF e > p + 1 /\ e < Len(s) /\ s[e + 1] = "]" THEN e + 1 ELSE -1
    ELSE -1

\* a missing value: node.value is undefined
Undefined == <<"undefined">>

\* String(originalValue), the conversion regex.exec applies to its argument
StringOf(v) ==
    IF v = Undefined THEN <<"u", "n", "d", "e", "f", "i", "n", "e", "d">> ELSE v

RECURSIVE Exec(_, _)
\* regex.exec(originalValue) with regex.lastIndex = from: the leftmost match at
\* or after from; index = -1 stands for null
Exec(s, from) ==
    IF from >= Len(s) THEN [index |-> -1, lastIndex |-> 0]
    ELSE IF MatchEnd(s, from) # -1
         THEN [index |-> from, lastIndex |-> MatchEnd(s, from)]
         ELSE Exec(s, from + 1)

\* ------------------------------------------------------------------------
\* Nodes
\* ------------------------------------------------------------------------
\* a field a node kind does not have is the empty sequence
TextNode(v) == [type |-> "text", value |-> v, url |-> << >>, children |-> << >>]

RefPrefix == <<"#", "r", "e", "f", "-">>

RECURSIVE StripZeros(_)
StripZeros(d) == IF Len(d) > 1 /\ d[1] = "0" THEN StripZeros(Tail(d)) ELSE d

\* a link whose target re-encodes the citation as a number
LinkNodeNumeric(citationNumber, fullMatchText) ==
    [type |-> "link", value |-> << >>,
     url |-> RefPrefix \o StripZeros(citationNumber),
     children |-> <<TextNode(fullMatchText)>>]

\* lines 40-44
LinkNode(citationNumber, fullMatchText) ==
    [type |-> "link", value |-> << >>,
     url |-> RefPrefix \o citationNumber,
     children |-> <<TextNode(fullMatchText)>>]

\* the text segment pushed without the emptiness guard
TextBeforeUnguarded(s, lastIndex, matchStartIndex) ==
    <<TextNode(Slice(s, lastIndex, matchStartIndex))>>

\* lines 35-37
TextBefore(s, lastIndex, matchStartIndex) ==
    IF matchStartIndex > lastIndex
    THEN <<TextNode(Slice(s, lastIndex, matchStartIndex))>>
    ELSE << >>

\* the remaining text dropped
TextAfterDropped(s, lastIndex) == << >>

\* the remaining text pushed without the emptiness guard
TextAfterUnguarded(s, lastIndex) == <<TextNode(Slice(s, lastIndex, Len(s)))>>

\* lines 55-57
TextAfter(s, lastIndex) ==
    IF lastIndex < Len(s)
    THEN <<TextNode(Slice(s, lastIndex, Len(s)))>>
    ELSE << >>

RECURSIVE ScanLoop(_, _, _)
\* lines 29-47: the while loop, from regex.lastIndex = lastIndex
ScanLoop(s, lastIndex, createdNodes) ==
    LET match == Exec(s, lastIndex)
    IN  IF match.index = -1
        THEN [createdNodes |-> createdNodes, lastIndex |-> lastIndex]
        ELSE LET citationNumber == Slice(s, match.index + 1, match.lastIndex - 1)
                 fullMatchText  == Slice(s, match.index, match.lastIndex)
             IN  ScanLoop(s, match.lastIndex,
                          createdNodes
                            \o TextBefore(s, lastIndex, match.index)
                            \o <<LinkNode(citationNumber, fullMatchText)>>)

\* the check of line 50 removed
NoCitationsNever(createdNodes) == FALSE

\* line 50
NoCitations(createdNodes) == Len(createdNodes) = 0

\* createdNodes and lastIndex kept from the previous call, as variables
\* declared outside the visitor would be
HoistedLocals ==
    [createdNodes |-> lastCall.createdNodes, lastIndex |-> lastCall.lastIndex]

\* lines 24-26: createdNodes, lastIndex and the matcher are made anew in each call
VisitorLocals == [createdNodes |-> << >>, lastIndex |-> 0]

\* lines 23-47: the loop run on a value from the locals of a fresh call
Scan(originalValue) ==
    ScanLoop(StringOf(originalValue), VisitorLocals.lastIndex, VisitorLocals.createdNodes)

\* lines 23-57: the replacement sequence of a text value; << >> when the
\* visitor returns at line 51
CreatedNodes(originalValue) ==
    LET scan == Scan(originalValue)
    IN  IF NoCitations(scan.createdNodes)
        THEN << >>
        ELSE scan.createdNodes \o TextAfter(originalValue, scan.lastIndex)

\* line 55: originalValue.length of a missing value is a TypeError; the line
\* is reached only past the return of line 51
ValueThrows(originalValue) ==
    /\ originalValue = Undefined
    /\ ~NoCitations(Scan(originalValue).createdNodes)

\* ------------------------------------------------------------------------
\* The heap
\* ------------------------------------------------------------------------
RECURSIVE Flatten(_, _)
\* the objects of createdNodes laid out in the heap after identity base:
\* heap = the new heap cells, ids = the identities of the top-level nodes
Flatten(createdNodes, base) ==
    IF createdNodes = << >> THEN [heap |-> << >>, ids |-> << >>]
    ELSE LET n    == Head(createdNodes)
             kids == [i \in 1..Len(n.children) |-> base + 1 + i]
             self == [n EXCEPT !.children = kids]
             rest == Flatten(Tail(createdNodes), base + 1 + Len(n.children))
         IN  [heap |-> <<self>> \o n.children \o rest.heap,
              ids  |-> <<base + 1>> \o rest.ids]

\* a splice one position too far to the right
SpliceShifted(children, index, ids) ==
    IF index + 1 < Len(children)
    THEN SubSeq(children, 1, index + 1) \o ids \o SubSeq(children, index + 3, Len(children))
    ELSE SubSeq(children, 1, index) \o ids

\* line 62: children.splice(index, 1, ...ids)
Splice(children, index, ids) ==
    SubSeq(children, 1, index) \o ids \o SubSeq(children, index + 2, Len(children))

\* the visitor returning index + 1 whatever was inserted
ResumeIndexPlusOne(index, createdNodes) == index + 1

\* the visitor returning one position too far
ResumeIndexSkipNext(index, createdNodes) == index + Len(createdNodes) + 1

\* line 67
ResumeIndex(index, createdNodes) == index + Len(createdNodes)

\* the check of line 19 removed
IsLinkParentNever(parent) == FALSE

\* line 19
IsLinkParent(parent) == parent.type = "link"

\* the check of line 14 removed
CanOperateAlways(h, parent, index) == TRUE

\* line 14; parent = 0 stands for no parent, index = -1 for an index that is
\* not a number
CanOperate(h, parent, index) ==
    /\ parent # 0
    /\ h[parent].type \in {"root", "paragraph", "emphasis", "link"}
    /\ index \in Nat

\* 'children' in node && node.children, in visitParents
HasChildren(n) == n.type \in {"root", "paragraph", "emphasis", "link"}

\* ------------------------------------------------------------------------
\* Input trees
\* ------------------------------------------------------------------------
ParentNode(t, ch) == [type |-> t, value |-> << >>, url |-> << >>, children |-> ch]
AuthoredLink(ch) ==
    [type |-> "link", value |-> << >>, url |-> <<"h", ":", "x">>, children |-> ch]
BreakNode == [type |-> "break", value |-> << >>, url |-> << >>, children |-> << >>]

Strings == UNION {[1..k -> Alphabet] : k \in 0..MaxLen}

\* the examples of the specification, shortened where the words do not matter
Samples ==
    { <<"[", "5", "]">>,
      <<"a", "[", "1", "2", "]", "a">>,
      <<"[", "1", "]", "[", "2", "]">>,
      <<"[", "a", "]", "a", "[", "1", "]">>,
      <<"[", "0", "0", "7", "]">>,
      <<"[", "1", "a", "]", "[", "]">>,
      <<"[", "1", "]", "a", "[", "2", "]", "[", "3", "]">>,
      <<"a", "[", "3", "]", "[", "[", "4", "]", "]", "a">> }

FreeValues == Strings \cup Samples

SideValues == { <<"a">>, <<"[", "3", "]">>, <<"a", "[", "2", "]", "a">> }

\* root > paragraph > text
Shape1(f, a, b) ==
    << ParentNode("root", <<2>>), ParentNode("paragraph", <<3>>), TextNode(f) >>

\* root > paragraph > (text, emphasis > text, text)
Shape2(f, a, b) ==
    << ParentNode("root", <<2>>), ParentNode("paragraph", <<3, 4, 6>>),
       TextNode(f), ParentNode("emphasis", <<5>>), TextNode(a), TextNode(b) >>

\* root > paragraph > (text, link > text, text)
Shape3(f, a, b) ==
    << ParentNode("root", <<2>>), ParentNode("paragraph", <<3, 4, 6>>),
       TextNode(a), AuthoredLink(<<5>>), TextNode(f), TextNode(b) >>

\* root > paragraph > (link > (emphasis > text, text), break, text)
Shape4(f, a, b) ==
    << ParentNode("root", <<2>>), ParentNode("paragraph", <<3, 7, 8>>),
       AuthoredLink(<<4, 6>>), ParentNode("emphasis", <<5>>), TextNode(f),
       TextNode(a), BreakNode, TextNode(b) >>

\* root > (paragraph > (text, text, text), paragraph > text)
Shape5(f, a, b) ==
    << ParentNode("root", <<2, 6>>), ParentNode("paragraph", <<3, 4, 5>>),
       TextNode(a), TextNode(f), TextNode(b),
       ParentNode("paragraph", <<7>>), TextNode(a) >>

ShapeIds == 1..5

InputTree(k, f, a, b) ==
    CASE k = 1 -> Shape1(f, a, b)
      [] k = 2 -> Shape2(f, a, b)
      [] k = 3 -> Shape3(f, a, b)
      [] k = 4 -> Shape4(f, a, b)
      [] k = 5 -> Shape5(f, a, b)

\* ------------------------------------------------------------------------
\* The transform
\* ------------------------------------------------------------------------
NoCall ==
    [node |-> 0, parent |-> 0, index |-> -1, result |-> "none",
     createdNodes |-> << >>, lastIndex |-> 0]

Init ==
    /\ \E k \in ShapeIds, f \in FreeValues, a \in SideValues, b \in SideValues :
          nodes = InputTree(k, f, a, b)
    /\ tree0 = nodes
    /\ stack = << >>
    /\ pc = "start"
    /\ scanned = << >>
    /\ replaced = << >>
    /\ declined = << >>
    /\ lastCall = NoCall
    /\ pass = 1
    /\ PanelIdle
    /\ PairIdle
    /\ ClientIdle
    /\ UiIdle

Top == stack[Len(stack)]

\* a traversal that never moves on to another child
SetOffsetStuck(st, off) == st

SetOffset(st, off) == [st EXCEPT ![Len(st)].offset = off]

\* how a call of the visitor ends: "return15", "skip" (line 20), "return51",
\* "replaced" (line 67) or "threw"
VisitorResult(h, node, parent, index) ==
    IF ~CanOperate(h, parent, index) THEN "return15"
    ELSE IF parent = 0 THEN "threw"                      \* line 19, parent.type
    ELSE IF IsLinkParent(h[parent]) THEN "skip"
    ELSE IF ValueThrows(h[node].value) THEN "threw"      \* line 55
    ELSE IF CreatedNodes(h[node].value) = << >> THEN "return51"
    ELSE IF ~HasChildren(h[parent]) THEN "threw"         \* line 62, parent.children
    ELSE "replaced"

\* the locals of the call of the visitor when it ends
LocalsLeft(h, node, result) ==
    IF result \in {"return15", "skip"} \/ (result = "threw" /\ ~ValueThrows(h[node].value))
    THEN [createdNodes |-> lastCall.createdNodes, lastIndex |-> lastCall.lastIndex]
    ELSE IF result = "return51" \/ ValueThrows(h[node].value)
    THEN [createdNodes |-> Scan(h[node].value).createdNodes,
          lastIndex |-> Scan(h[node].value).lastIndex]
    ELSE [createdNodes |-> CreatedNodes(h[node].value),
          lastIndex |-> Scan(h[node].value).lastIndex]

CallRecord(h, node, parent, index) ==
    LET result == VisitorResult(h, node, parent, index)
        left   == LocalsLeft(h, node, result)
    IN  [node |-> node, parent |-> parent, index |-> index, result |-> result,
         createdNodes |-> left.createdNodes, lastIndex |-> left.lastIndex]

\* visit(tree, 'text', visitor): the children of the root are iterated; a tree
\* that is a bare text node is handed to the visitor without parent and index
Start ==
    /\ pc = "start"
    /\ IF nodes[1].type = "text"
       THEN /\ lastCall' = CallRecord(nodes, 1, 0, -1)
            /\ pc' = IF lastCall'.result = "threw" THEN "threw" ELSE "done"
            /\ declined' = IF lastCall'.result = "return15"
                           THEN Append(declined, 1) ELSE declined
            /\ stack' = << >>
       ELSE /\ pc' = "visiting"
            /\ stack' = <<[node |-> 1, offset |-> 0]>>
            /\ UNCHANGED <<lastCall, declined>>
    /\ UNCHANGED <<nodes, tree0, scanned, replaced, others>>

\* the visitor called for node, the child at Top.offset of Top.node, and told
\* that node is the child at index of parent
VisitorCall(node, parent, index) ==
    \E call \in {CallRecord(nodes, node, parent, index)} :
        /\ lastCall' = call
        /\ scanned' = IF call.result \in {"return15", "skip"} \/ parent = 0
                      THEN scanned ELSE Append(scanned, node)
        /\ declined' = IF call.result = "return15" THEN Append(declined, node) ELSE declined
        /\ pc' = IF call.result = "threw" THEN "threw" ELSE pc
        /\ IF call.result = "replaced"
           THEN \E createdNodes \in {CreatedNodes(nodes[node].value)} :
                \E alloc \in {Flatten(createdNodes, Len(nodes))} :
                LET \* splice(undefined, ...) is splice(0, ...); undefined + n is
                    \* NaN, with which the loop over the children ends
                    at    == IF index = -1 THEN 0 ELSE index
                    kids  == Splice(nodes[parent].children, at, alloc.ids)
                IN  /\ nodes' = [nodes \o alloc.heap EXCEPT ![parent].children = kids]
                    /\ replaced' = Append(replaced,
                                     [node |-> node, parent |-> parent,
                                      index |-> index, created |-> alloc.ids])
                    /\ stack' = SetOffset(stack,
                                   IF index = -1
                                   THEN Len(nodes'[Top.node].children)
                                   ELSE ResumeIndex(index, createdNodes))
           ELSE /\ stack' = SetOffset(stack, Top.offset + 1)
                /\ UNCHANGED <<nodes, replaced>>
        /\ UNCHANGED <<tree0, others>>

\* the visitor, called for the text node at Top.offset of Top.node
Visitor ==
    /\ pc = "visiting"
    /\ Top.offset < Len(nodes[Top.node].children)
    /\ LET node == nodes[Top.node].children[Top.offset + 1]
       IN  /\ nodes[node].type = "text"
           /\ VisitorCall(node, Top.node, Top.offset)

\* a node that is not a text node and has children: its children are iterated
Descend ==
    /\ pc = "visiting"
    /\ Top.offset < Len(nodes[Top.node].children)
    /\ LET child == nodes[Top.node].children[Top.offset + 1]
       IN  /\ nodes[child].type # "text"
           /\ HasChildren(nodes[child])
           /\ stack' = Append(stack, [node |-> child, offset |-> 0])
    /\ UNCHANGED <<nodes, pc, tree0, scanned, replaced, declined, lastCall, others>>

\* a node that is not a text node and has no children: next sibling
PassLeaf ==
    /\ pc = "visiting"
    /\ Top.offset < Len(nodes[Top.node].children)
    /\ LET child == nodes[Top.node].children[Top.offset + 1]
       IN  /\ nodes[child].type # "text"
           /\ ~HasChildren(nodes[child])
           /\ stack' = SetOffset(stack, Top.offset + 1)
    /\ UNCHANGED <<nodes, pc, tree0, scanned, replaced, declined, lastCall, others>>

\* the children of Top.node are exhausted: back to its parent, next sibling
Return ==
    /\ pc = "visiting"
    /\ Top.offset >= Len(nodes[Top.node].children)
    /\ LET popped == SubSeq(stack, 1, Len(stack) - 1)
       IN  IF popped = << >>
           THEN /\ stack' = << >>
                /\ pc' = "done"
           ELSE /\ stack' = SetOffset(popped, popped[Len(popped)].offset + 1)
                /\ pc' = pc
    /\ UNCHANGED <<nodes, tree0, scanned, replaced, declined, lastCall, others>>

Next == Start \/ Visitor \/ Descend \/ PassLeaf \/ Return

Spec == Init /\ [][Next]_vars

\* the transform runs to completion once the render pipeline has called it:
\* it is synchronous, nothing else has to happen for its next step
\* short text values: none, one and two citations
LiveValues == SideValues \cup { << >>, <<"[", "1", "]", "[", "2", "]">>, <<"[", "1", "a", "]">> }

InitLive ==
    /\ \E k \in ShapeIds, f \in LiveValues, a \in SideValues :
          nodes = InputTree(k, f, a, <<"a", "[", "2", "]", "a">>)
    /\ tree0 = nodes
    /\ stack = << >>
    /\ pc = "start"
    /\ scanned = << >>
    /\ replaced = << >>
    /\ declined = << >>
    /\ lastCall = NoCall
    /\ pass = 1
    /\ PanelIdle
    /\ PairIdle
    /\ ClientIdle
    /\ UiIdle

SpecLive == InitLive /\ [][Next]_vars /\ WF_vars(Next)

\* the transformer called again on the tree it has transformed
Reapply ==
    /\ pc = "done"
    /\ pass < MaxPasses
    /\ pass' = pass + 1
    /\ pc' = "start"
    /\ tree0' = nodes
    /\ stack' = << >>
    /\ scanned' = << >>
    /\ replaced' = << >>
    /\ declined' = << >>
    /\ UNCHANGED <<nodes, lastCall, panelVars, parked, clientVars, uiVars>>

NextTwice == Start \/ Visitor \/ Descend \/ PassLeaf \/ Return \/ Reapply

SpecTwice == Init /\ [][NextTwice]_vars

\* ------------------------------------------------------------------------
\* Trees and reports the transform was not written for
\* ------------------------------------------------------------------------
\* text values, the missing value among them
EdgeValues == SideValues \cup {Undefined, << >>, <<"[", "1", "]", "[", "2", "]">>}

EdgeShapeIds == 0..5

\* shape 0 is a tree that is a bare text node
EdgeTree(k, f, a, b) == IF k = 0 THEN << TextNode(f) >> ELSE InputTree(k, f, a, b)

InitEdge ==
    /\ \E k \in EdgeShapeIds, f \in EdgeValues, a \in EdgeValues, b \in SideValues :
          nodes = EdgeTree(k, f, a, b)
    /\ tree0 = nodes
    /\ stack = << >>
    /\ pc = "start"
    /\ scanned = << >>
    /\ replaced = << >>
    /\ declined = << >>
    /\ lastCall = NoCall
    /\ pass = 1
    /\ PanelIdle
    /\ PairIdle
    /\ ClientIdle
    /\ UiIdle

\* what a traversal can tell the visitor that fails the check of line 14: no
\* parent, a parent without an array of children, an index that is no number
Misreports(h, parent, index) ==
    { [parent |-> 0, index |-> index], [parent |-> parent, index |-> -1] }
    \cup { [parent |-> p, index |-> index] : p \in {q \in 1..Len(h) : ~HasChildren(h[q])} }

\* the visitor called for the text node at Top.offset of Top.node by a
\* traversal that misreports its parent or its index
VisitorDetached ==
    /\ pc = "visiting"
    /\ Top.offset < Len(nodes[Top.node].children)
    /\ LET node == nodes[Top.node].children[Top.offset + 1]
       IN  /\ nodes[node].type = "text"
           /\ \E told \in Misreports(nodes, Top.node, Top.offset) :
                  VisitorCall(node, told.parent, told.index)

NextEdge == Start \/ Visitor \/ VisitorDetached \/ Descend \/ PassLeaf \/ Return

SpecEdge == InitEdge /\ [][NextEdge]_vars

\* ------------------------------------------------------------------------
\* Two invocations of the transform on two trees, interleaved
\* ------------------------------------------------------------------------
PairValues ==
    { <<"a">>, <<"[", "1", "]">>, <<"[", "1", "a", "]">>,
      <<"a", "[", "1", "]", "[", "2", "]">> }

PairShapeIds == {1, 2, 3, 5}

PairTree(k, f) == InputTree(k, f, <<"a", "[", "2", "]", "a">>, <<"[", "3", "]">>)

\* an invocation that has not started
Fresh(tree) ==
    [nodes |-> tree, tree0 |-> tree, stack |-> << >>, pc |-> "start",
     scanned |-> << >>, replaced |-> << >>, declined |-> << >>]

InitPair ==
    /\ \E k \in PairShapeIds, f \in PairValues : nodes = PairTree(k, f)
    /\ \E k \in PairShapeIds, f \in PairValues : parked = Fresh(PairTree(k, f))
    /\ tree0 = nodes
    /\ stack = << >>
    /\ pc = "start"
    /\ scanned = << >>
    /\ replaced = << >>
    /\ declined = << >>
    /\ lastCall = NoCall
    /\ pass = 1
    /\ PanelIdle
    /\ ClientIdle
    /\ UiIdle

\* between two calls of the visitor the other invocation gets to run; what
\* is left of the last call of the visitor stays where it is
Switch ==
    /\ parked.pc \in {"start", "visiting"}
    /\ parked' = [nodes |-> nodes, tree0 |-> tree0, stack |-> stack, pc |-> pc,
                  scanned |-> scanned, replaced |-> replaced, declined |-> declined]
    /\ nodes' = parked.nodes
    /\ tree0' = parked.tree0
    /\ stack' = parked.stack
    /\ pc' = parked.pc
    /\ scanned' = parked.scanned
    /\ replaced' = parked.replaced
    /\ declined' = parked.declined
    /\ UNCHANGED <<lastCall, pass, panelVars, clientVars, uiVars>>

NextPair == Start \/ Visitor \/ Descend \/ Return \/ Switch

SpecPair == InitPair /\ [][NextPair]_vars

\* ------------------------------------------------------------------------
\* The panels that render markdown through the transform (results.tsx)
\* ------------------------------------------------------------------------
SourceAlphabet == {"[", "]", "1", "0", "\\"}

\* the characters a backslash escapes, among those of the model
EscapedByBackslash == {"[", "]", "\\"}

RECURSIVE Unescape(_)
\* the text of a markdown paragraph: a backslash in front of a punctuation
\* character stands for that character
Unescape(src) ==
    IF src = << >> THEN << >>
    ELSE IF Len(src) >= 2 /\ src[1] = "\\" /\ src[2] \in EscapedByBackslash
         THEN <<src[2]>> \o Unescape(SubSeq(src, 3, Len(src)))
         ELSE <<src[1]>> \o Unescape(Tail(src))

\* the tree react-markdown hands to the plugins for a one-line source made of
\* brackets, digits and backslashes: no link reference is defined, so brackets
\* are text
Parse(src) ==
    IF src = << >>
    THEN << ParentNode("root", << >>) >>
    ELSE << ParentNode("root", <<2>>), ParentNode("paragraph", <<3>>),
            TextNode(Unescape(src)) >>

DigitValue(c) ==
    CASE c = "0" -> 0 [] c = "1" -> 1 [] c = "2" -> 2 [] c = "3" -> 3 [] c = "4" -> 4
      [] c = "5" -> 5 [] c = "6" -> 6 [] c = "7" -> 7 [] c = "8" -> 8 [] c = "9" -> 9

RECURSIVE ParseInt(_)
\* parseInt of a string of digits
ParseInt(d) ==
    IF d = << >> THEN 0
    ELSE 10 * ParseInt(SubSeq(d, 1, Len(d) - 1)) + DigitValue(d[Len(d)])

\* Set.add on a set kept in insertion order
SetAdd(set, x) ==
    IF \E i \in 1..Len(set) : set[i] = x THEN set ELSE Append(set, x)

RECURSIVE SetAddAll(_, _)
SetAddAll(set, xs) ==
    IF xs = << >> THEN set ELSE SetAddAll(SetAdd(set, Head(xs)), Tail(xs))

RECURSIVE InsertByParseInt(_, _)
InsertByParseInt(sorted, x) ==
    IF sorted = << >> THEN <<x>>
    ELSE IF ParseInt(Head(sorted)) <= ParseInt(x)
         THEN <<Head(sorted)>> \o InsertByParseInt(Tail(sorted), x)
         ELSE <<x>> \o sorted

RECURSIVE SortByParseInt(_)
\* Array.prototype.sort((a, b) => parseInt(a) - parseInt(b)), a stable sort
SortByParseInt(xs) ==
    IF xs = << >> THEN << >>
    ELSE InsertByParseInt(SortByParseInt(SubSeq(xs, 1, Len(xs) - 1)), xs[Len(xs)])

RECURSIVE ReferenceLoop(_, _, _)
\* results.tsx lines 330-332: the loop of extractReferences
ReferenceLoop(text, lastIndex, references) ==
    LET match == Exec(text, lastIndex)
    IN  IF match.index = -1 THEN references
        ELSE ReferenceLoop(text, match.lastIndex,
                           SetAdd(references,
                                  Slice(text, match.index + 1, match.lastIndex - 1)))

\* results.tsx lines 325-335
ExtractReferences(text) == SortByParseInt(ReferenceLoop(text, 0, << >>))

RECURSIVE AllReferences(_, _)
\* results.tsx lines 338-347: the references of the summary, then those of
\* each description
AllReferences(texts, allReferences) ==
    IF texts = << >> THEN allReferences
    ELSE AllReferences(Tail(texts), SetAddAll(allReferences, ExtractReferences(Head(texts))))

\* the numbers the hidden anchors are rendered for: results.tsx line 349
\* (updates), 485 (policy), 613 (budget)
ReferenceArray(kind, texts) ==
    IF kind = "updates"
    THEN SortByParseInt(AllReferences(texts, << >>))
    ELSE ExtractReferences(texts[1])

\* results.tsx lines 463, 591, 702: id={`ref-${refNumber}`}
AnchorIds(refs) == [i \in 1..Len(refs) |-> <<"r", "e", "f", "-">> \o refs[i]]

SourceTexts == UNION {[1..k -> SourceAlphabet] : k \in 0..MaxLen}

\* descriptions of key updates
Descriptions == { <<"[", "2", "]">>, <<"\\", "[", "1", "\\", "]", "[", "1", "0", "]">> }

\* no transform is running
LinkerIdle ==
    /\ nodes = << >>
    /\ tree0 = << >>
    /\ stack = << >>
    /\ pc = "idle"
    /\ scanned = << >>
    /\ replaced = << >>
    /\ declined = << >>
    /\ lastCall = NoCall
    /\ pass = 1

InitPanel ==
    /\ LinkerIdle
    /\ PairIdle
    /\ ClientIdle
    /\ UiIdle
    /\ cursor = 0
    /\ anchors = << >>
    /\ \E kind \in {"updates", "policy", "budget"}, text \in SourceTexts :
           /\ panelKind = kind
           /\ \/ sources = <<text>>
              \/ /\ kind = "updates"
                 /\ \E d \in Descriptions : sources = <<text, d>>

\* the tree of the Markdown element i handed to the transform
BeginMarkdown(i) ==
    /\ cursor' = i
    /\ nodes' = Parse(sources[i])
    /\ tree0' = nodes'
    /\ stack' = << >>
    /\ pc' = "start"
    /\ scanned' = << >>
    /\ replaced' = << >>
    /\ declined' = << >>
    /\ lastCall' = NoCall

\* the body of ResultsUpdates, ResultsPolicy or ResultsBudget: the references
\* are extracted from the raw texts, then the first Markdown element renders
RenderPanel ==
    /\ cursor = 0
    /\ pc = "idle"
    /\ anchors' = AnchorIds(ReferenceArray(panelKind, sources))
    /\ BeginMarkdown(1)
    /\ UNCHANGED <<pass, panelKind, sources, parked, clientVars, uiVars>>

\* the next Markdown element of the panel renders
NextMarkdown ==
    /\ cursor >= 1
    /\ cursor < Len(sources)
    /\ pc = "done"
    /\ BeginMarkdown(cursor + 1)
    /\ UNCHANGED <<pass, panelKind, sources, anchors, parked, clientVars, uiVars>>

\* a tree of Parse has no leaf other than text, so no leaf is passed over
NextPanel ==
    RenderPanel \/ NextMarkdown \/ Start \/ Visitor \/ Descend \/ Return

SpecPanel == InitPanel /\ [][NextPanel]_vars

\* ------------------------------------------------------------------------
\* The API client (constants.ts)
\* ------------------------------------------------------------------------
MaxUrlLen == 5

\* a string is a sequence of pieces: "/" or a run of characters without "/"
ENDPOINTS ==
    [DECODE          |-> <<"/", "api", "/", "decode">>,
     POLICY_SERVICES |-> <<"/", "api", "/", "policy-guidance">>,
     NDIS_UPDATES    |-> <<"/", "api", "/", "ndis-updates">>,
     PLAN_BUDGET     |-> <<"/", "api", "/", "plan-budget">>]

EndpointUrls == {ENDPOINTS[k] : k \in DOMAIN ENDPOINTS}

DefaultBase == <<"https:", "/", "/", "decode-ndis-perplexity.onrender.com">>

UrlStrings == UNION {[1..k -> {"/", "a"}] : k \in 0..MaxUrlLen}

RECURSIVE SlashRunEnd(_, _)
\* \/+, greedy: the 0-based position just after the slashes that start at p
SlashRunEnd(s, p) ==
    IF p < Len(s) /\ s[p + 1] = "/" THEN SlashRunEnd(s, p + 1) ELSE p

RECURSIVE SearchTrailing(_, _)
\* the leftmost match of /\/+$/ at or after p: its 0-based start, -1 if none
SearchTrailing(s, p) ==
    IF p >= Len(s) THEN -1
    ELSE IF s[p + 1] = "/" /\ SlashRunEnd(s, p) = Len(s) THEN p
    ELSE SearchTrailing(s, p + 1)

\* s.replace(/\/+$/, '')
ReplaceTrailing(s) ==
    LET p == SearchTrailing(s, 0)
    IN  IF p = -1 THEN s ELSE Slice(s, 0, p)

\* line 25; an unset or empty variable is falsy
API_BASE == ReplaceTrailing(IF env = << >> THEN DefaultBase ELSE env)

RECURSIVE ReplaceAllFrom(_, _, _)
\* s.replace(/^\/+|\/+$/g, '') from position p on, out being what is kept so far
ReplaceAllFrom(s, p, out) ==
    IF p >= Len(s) THEN out
    ELSE IF s[p + 1] = "/" /\ p = 0
         THEN ReplaceAllFrom(s, SlashRunEnd(s, 0), out)
    ELSE IF s[p + 1] = "/" /\ SlashRunEnd(s, p) = Len(s)
         THEN ReplaceAllFrom(s, Len(s), out)
    ELSE ReplaceAllFrom(s, p + 1, Append(out, s[p + 1]))

\* the pattern without its g flag: only the first match is replaced
CleanEndpointFirstMatch(e) ==
    IF e # << >> /\ e[1] = "/"
    THEN Slice(e, SlashRunEnd(e, 0), Len(e))
    ELSE ReplaceTrailing(e)

\* line 30
CleanEndpoint(e) == ReplaceAllFrom(e, 0, << >>)

\* lines 28-33
GetApiUrl(e) == API_BASE \o <<"/">> \o CleanEndpoint(e)

\* statuses a server answers with
Statuses == {200, 201, 400, 404, 405, 500}

\* Response.ok
Ok(status) == status >= 200 /\ status <= 299

\* line 69
HttpError(status) == <<"HTTP error! status: ", status>>

\* response.json(): the parsed body, or a rejection when the body is not JSON
Json(r) ==
    IF r.json = "valid"
    THEN [kind |-> "value", value |-> r.body]
    ELSE [kind |-> "rejected", error |-> <<"SyntaxError">>]

\* the rejection of response.json() let through
CatchNothing(p) == p

\* line 62: .catch(() => ({}))
CatchEmpty(p) == IF p.kind = "rejected" THEN [kind |-> "value", value |-> "{}"] ELSE p

linkerVars == <<nodes, stack, pc, tree0, scanned, replaced, declined, lastCall, pass>>

InitFetch ==
    /\ LinkerIdle
    /\ PanelIdle
    /\ PairIdle
    /\ UiIdle
    /\ env \in UrlStrings
    /\ endpoint = << >>
    /\ request = NoRequest
    /\ response = NoResponse
    /\ outcome = NoOutcome
    /\ fpc = "idle"

\* lines 47-59 for endpoint e and the given body
FetchCall(e, body) ==
    /\ endpoint' = e
    /\ request' = [url |-> GetApiUrl(e), method |-> "POST", body |-> body]
    /\ fpc' = "fetching"

\* lines 47-59: the URL is built and fetch is called
FetchFromEndpoint ==
    /\ fpc = "idle"
    /\ \E e \in EndpointUrls \cup UrlStrings : FetchCall(e, << >>)
    /\ UNCHANGED <<env, response, outcome, linkerVars, panelVars, parked, uiVars>>

\* the promise of fetch is fulfilled with a response
FetchFulfilled ==
    /\ fpc = "fetching"
    /\ \E status \in Statuses, json \in {"valid", "invalid"} :
          response' = [kind |-> "response", status |-> status, ok |-> Ok(status),
                       json |-> json, body |-> <<"body", status>>]
    /\ fpc' = IF response'.ok THEN "reading" ELSE "readingError"
    /\ UNCHANGED <<env, endpoint, request, outcome, linkerVars, panelVars, parked, uiVars>>

\* the promise of fetch is rejected: the network failed or the request was
\* aborted; lines 73-75 throw the error again
FetchRejected ==
    /\ fpc = "fetching"
    /\ \E error \in {<<"TypeError">>, <<"AbortError">>} :
          /\ response' = [kind |-> "rejected", error |-> error]
          /\ outcome' = [kind |-> "threw", error |-> error]
    /\ fpc' = "settled"
    /\ UNCHANGED <<env, endpoint, request, linkerVars, panelVars, parked, uiVars>>

\* lines 61-70, then 73-75
ReadErrorBody ==
    /\ fpc = "readingError"
    /\ LET errorData == CatchEmpty(Json(response))
       IN  outcome' = IF errorData.kind = "rejected"
                      THEN [kind |-> "threw", error |-> errorData.error]
                      ELSE [kind |-> "threw", error |-> HttpError(response.status)]
    /\ fpc' = "settled"
    /\ UNCHANGED <<env, endpoint, request, response, linkerVars, panelVars, parked, uiVars>>

\* line 72, then 73-75 when the body is not JSON
ReadBody ==
    /\ fpc = "reading"
    /\ LET data == Json(response)
       IN  outcome' = IF data.kind = "rejected"
                      THEN [kind |-> "threw", error |-> data.error]
                      ELSE [kind |-> "returned", value |-> data.value]
    /\ fpc' = "settled"
    /\ UNCHANGED <<env, endpoint, request, response, linkerVars, panelVars, parked, uiVars>>

NextFetch == FetchFromEndpoint \/ FetchFulfilled \/ FetchRejected \/ ReadErrorBody \/ ReadBody

SpecFetch == InitFetch /\ [][NextFetch]_vars

\* ------------------------------------------------------------------------
\* ResultsDisplay (results.tsx)
\* ------------------------------------------------------------------------
EndpointNames ==
    [DECODE          |-> "Decode",
     POLICY_SERVICES |-> "Policy & Services Guidance",
     NDIS_UPDATES    |-> "NDIS Updates",
     PLAN_BUDGET     |-> "Budget Planning Assistant"]

\* the empty string, which onValueChange sets the response to
EmptyString == [kind |-> "string", value |-> << >>]

\* an object with a field error; error = << >> stands for no such field
ErrorObject(error, message) ==
    [kind |-> "object", error |-> error, message |-> message, from |-> << >>]

\* the JSON an endpoint answered with
Answer(e, body) ==
    [kind |-> "object", error |-> << >>, message |-> body, from |-> e]

\* !results
Falsy(r) == r.kind = "null" \/ (r.kind = "string" /\ r.value = << >>)

\* results.error, << >> when there is none
ErrorOf(r) == IF r.kind = "object" THEN r.error ELSE << >>

\* lines 810-819
Title(e) ==
    IF e = ENDPOINTS.NDIS_UPDATES THEN EndpointNames.NDIS_UPDATES
    ELSE IF e = ENDPOINTS.POLICY_SERVICES THEN EndpointNames.POLICY_SERVICES
    ELSE IF e = ENDPOINTS.DECODE THEN EndpointNames.DECODE
    ELSE IF e = ENDPOINTS.PLAN_BUDGET THEN EndpointNames.PLAN_BUDGET
    ELSE "NDIS"

\* lines 825-833
Panel(e) ==
    IF e = ENDPOINTS.DECODE THEN "ResultsDecode"
    ELSE IF e = ENDPOINTS.POLICY_SERVICES THEN "ResultsPolicy"
    ELSE IF e = ENDPOINTS.NDIS_UPDATES THEN "ResultsUpdates"
    ELSE IF e = ENDPOINTS.PLAN_BUDGET THEN "ResultsBudget"
    ELSE "null"

\* the error looked at before the loading flag
ResultsDisplayErrorFirst(e, r, loading) ==
    IF ErrorOf(r) # << >> THEN [view |-> "ResultsError", error |-> r.error]
    ELSE IF loading THEN [view |-> "ResultsLoading"]
    ELSE IF Falsy(r) THEN [view |-> "null"]
    ELSE [view |-> "panel", title |-> Title(e), body |-> Panel(e), results |-> r]

\* lines 797-836
ResultsDisplay(e, r, loading) ==
    IF loading THEN [view |-> "ResultsLoading"]
    ELSE IF Falsy(r) THEN [view |-> "null"]
    ELSE IF ErrorOf(r) # << >> THEN [view |-> "ResultsError", error |-> r.error]
    ELSE [view |-> "panel", title |-> Title(e), body |-> Panel(e), results |-> r]

UnknownEndpoint == <<"/", "api", "/", "other">>

\* the values the prop results takes
ViewResults ==
    {Null, EmptyString,
     ErrorObject(<<"Request failed">>, <<"try again">>),
     ErrorObject(<<"Invalid plan amount">>, <<"include an amount">>),
     ErrorObject(<<"Submission error">>, <<"try again">>)}
    \cup {Answer(e, <<"body", status>>) : e \in EndpointUrls, status \in {200, 201}}

ViewIdle ==
    /\ LinkerIdle
    /\ PanelIdle
    /\ PairIdle
    /\ ClientIdle
    /\ input = << >>
    /\ files = << >>
    /\ submits = 0
    /\ sent = 0
    /\ isUploading = FALSE
    /\ batch = << >>
    /\ upc = "idle"

\* ResultsDisplay about to render for the first time, with the props
\* InvoiceChat starts with (invoice-chat.tsx lines 30-32)
InitView ==
    /\ ViewIdle
    /\ selectedApi = ENDPOINTS.DECODE
    /\ results = Null
    /\ isLoading = FALSE
    /\ shown = NoView

\* what a render does not touch
viewRest ==
    <<linkerVars, panelVars, parked, clientVars, uploadVars, input, files, submits, sent>>

\* the first render
Mount ==
    /\ shown = NoView
    /\ shown' = ResultsDisplay(selectedApi, results, isLoading)
    /\ UNCHANGED <<selectedApi, results, isLoading, viewRest>>

\* a render with new props
Rerender ==
    /\ shown # NoView
    /\ selectedApi' \in EndpointUrls \cup {UnknownEndpoint}
    /\ results' \in ViewResults
    /\ isLoading' \in BOOLEAN
    /\ shown' = ResultsDisplay(selectedApi', results', isLoading')
    /\ UNCHANGED viewRest

NextView == Mount \/ Rerender

SpecView == InitView /\ [][NextView]_vars

\* ------------------------------------------------------------------------
\* The plan amount of the budget endpoint (invoice-chat.tsx lines 135-150)
\* ------------------------------------------------------------------------
\* a text is a sequence of characters; the piece "dollars" stands for that word
\* \w
IsWord(c) == c \notin {"$", ",", ".", " "}

\* \s
IsSpace(c) == c = " "

\* \b at the 0-based position i of s
Boundary(s, i) ==
    (i > 0 /\ IsWord(s[i])) # (i < Len(s) /\ IsWord(s[i + 1]))

RECURSIVE RunEnd(_, _, _)
\* the 0-based position just after the characters of the set cs that start at p
RunEnd(s, p, cs) ==
    IF p < Len(s) /\ s[p + 1] \in cs THEN RunEnd(s, p + 1, cs) ELSE p

Digits == {"0", "1", "2", "3", "4", "5", "6", "7", "8", "9"}

\* the ways \d[\d,]*\.?\d*\s*k? matches at the 0-based position q: the length
\* of [\d,]*, whether the dot is taken, the lengths of \d* and \s*, whether
\* the k is taken, and the position just after the match
NumberMatches(s, q) ==
    IF ~(q < Len(s) /\ s[q + 1] \in Digits) THEN {}
    ELSE
    { c \in [n1 : 0..Len(s), dot : {0, 1}, n2 : 0..Len(s), n3 : 0..Len(s),
             k : {0, 1}, end : 0..Len(s)] :
        LET a == q + 1 + c.n1
            b == a + c.dot
            d == b + c.n2
            f == d + c.n3
        IN  /\ c.end = f + c.k
            /\ c.end <= Len(s)
            /\ a <= RunEnd(s, q + 1, Digits \cup {","})
            /\ c.dot = 1 => s[a + 1] = "."
            /\ d <= RunEnd(s, b, Digits)
            /\ f <= RunEnd(s, d, {" "})
            /\ c.k = 1 => s[f + 1] = "k" }

\* c is tried before d by the backtracking matcher: each quantifier is greedy
TriedBefore(c, d) ==
    \/ c.n1 > d.n1
    \/ c.n1 = d.n1 /\ c.dot > d.dot
    \/ c.n1 = d.n1 /\ c.dot = d.dot /\ c.n2 > d.n2
    \/ c.n1 = d.n1 /\ c.dot = d.dot /\ c.n2 = d.n2 /\ c.n3 > d.n3
    \/ c.n1 = d.n1 /\ c.dot = d.dot /\ c.n2 = d.n2 /\ c.n3 = d.n3 /\ c.k > d.k

\* the match the matcher finds among those of the set S
FirstTried(S) == CHOOSE c \in S : \A d \in S : d = c \/ TriedBefore(c, d)

\* \$(...) at p: the 0-based end of the match, -1 if none
DollarSignEnd(s, p) ==
    IF p < Len(s) /\ s[p + 1] = "$" /\ NumberMatches(s, p + 1) # {}
    THEN FirstTried(NumberMatches(s, p + 1)).end
    ELSE -1

\* \b(...)\s*dollars\b at p
DollarsWordEnd(s, p) ==
    LET S == { c \in NumberMatches(s, p) :
                 LET w == RunEnd(s, c.end, {" "})
                 IN  /\ w < Len(s)
                     /\ s[w + 1] = "dollars"
                     /\ Boundary(s, w + 1) }
    IN  IF Boundary(s, p) /\ S # {}
        THEN RunEnd(s, FirstTried(S).end, {" "}) + 1
        ELSE -1

\* (...)\b at p
BareNumberEnd(s, p) ==
    LET S == { c \in NumberMatches(s, p) : Boundary(s, c.end) }
    IN  IF S # {} THEN FirstTried(S).end ELSE -1

\* the three alternatives in their order, at p
AmountEnd(s, p) ==
    IF DollarSignEnd(s, p) # -1 THEN DollarSignEnd(s, p)
    ELSE IF DollarsWordEnd(s, p) # -1 THEN DollarsWordEnd(s, p)
    ELSE BareNumberEnd(s, p)

RECURSIVE AmountMatch(_, _)
\* input.match(amountRegex) searched from p on: match[0], or Null
AmountMatch(s, p) ==
    IF p >= Len(s) THEN Null
    ELSE IF AmountEnd(s, p) # -1
         THEN [kind |-> "match", text |-> Slice(s, p, AmountEnd(s, p))]
         ELSE AmountMatch(s, p + 1)

\* .replace(/[\$,\s]/g, '')
StripMoney(s) == SelectSeq(s, LAMBDA c : c \notin {"$", ",", " "})

RECURSIVE ReplaceFirstK(_)
\* .replace('k', ''): the first k is taken out
ReplaceFirstK(s) ==
    IF s = << >> THEN << >>
    ELSE IF Head(s) = "k" THEN Tail(s)
    ELSE <<Head(s)>> \o ReplaceFirstK(Tail(s))

RECURSIVE DigitsValue(_)
\* the number a string of digits denotes
DigitsValue(d) ==
    IF d = << >> THEN 0
    ELSE 10 * DigitsValue(SubSeq(d, 1, Len(d) - 1)) + DigitValue(d[Len(d)])

\* parseFloat: the longest prefix that is a decimal literal; the number is
\* mant / 10^exp, nan when there is no such prefix
ParseFloat(s) ==
    LET i    == RunEnd(s, 0, Digits)
        dot  == i < Len(s) /\ s[i + 1] = "."
        j    == IF dot THEN RunEnd(s, i + 1, Digits) ELSE i
        frac == IF dot THEN Slice(s, i + 1, j) ELSE << >>
    IN  IF i = 0 /\ frac = << >>
        THEN [nan |-> TRUE, mant |-> 0, exp |-> 0]
        ELSE [nan |-> FALSE, mant |-> DigitsValue(Slice(s, 0, i) \o frac), exp |-> Len(frac)]

\* lines 146-148: the k is taken out and '000' appended
Thousands(extractedAmount) == ParseFloat(ReplaceFirstK(extractedAmount) \o <<"0", "0", "0">>)

\* lines 139-150: the plan amount of the text input; 0 when nothing matches
PlanAmount(s) ==
    LET match == AmountMatch(s, 0)
    IN  IF match = Null THEN [nan |-> FALSE, mant |-> 0, exp |-> 0]
        ELSE LET extractedAmount == StripMoney(match.text)
             IN  IF extractedAmount[Len(extractedAmount)] = "k"
                 THEN Thousands(extractedAmount)
                 ELSE ParseFloat(extractedAmount)

\* a test that rejects NaN only
InvalidAmountNaNOnly(planAmount) == planAmount.nan

\* line 152: !planAmount || planAmount <= 0
InvalidAmount(planAmount) == planAmount.nan \/ planAmount.mant <= 0

\* ------------------------------------------------------------------------
\* InvoiceChat: the form (invoice-chat.tsx)
\* ------------------------------------------------------------------------
\* React commits the state updates of an event before the next event is
\* handled, so every handler below reads the state the previous one left.
MaxSubmits == 2

\* !input.trim()
Blank(s) == \A i \in 1..Len(s) : IsSpace(s[i])

\* texts the user types
ChatInputs ==
    {<< >>, <<" ">>, <<"h", "i">>, <<"5", "0", "k">>, <<"1", ".", "5", "k">>, <<"0">>}

\* lists of attached files
FileLists == {<< >>, <<"a.pdf">>}

\* lines 163-171: the body of a budget request
BudgetBody(planAmount, text) ==
    <<"plan_amount", planAmount, "needs_description", text,
      "existing_supports", << >>, "priorities", << >>>>

\* lines 188-192: the body of any other request
QueryBody(text) == <<"query", text>>

\* lines 153-157
InvalidPlanAmount == ErrorObject(<<"Invalid plan amount">>, <<"include an amount">>)

\* a catch block that sets no error
RequestFailedSilently == EmptyString

\* lines 178-182 and 200-204
RequestFailed == ErrorObject(<<"Request failed">>, <<"try again">>)

\* what the component renders below the form, lines 338-342
Render == shown' = ResultsDisplay(selectedApi', results', isLoading')

\* what the form leaves alone
chatRest == <<linkerVars, panelVars, parked, uploadVars, env>>

InitChat ==
    /\ LinkerIdle
    /\ PanelIdle
    /\ PairIdle
    /\ ClientIdle
    /\ input = << >>
    /\ files = << >>
    /\ isLoading = FALSE
    /\ selectedApi = ENDPOINTS.DECODE
    /\ results = Null
    /\ submits = 0
    /\ sent = 0
    /\ shown = ResultsDisplay(ENDPOINTS.DECODE, Null, FALSE)
    /\ isUploading = FALSE
    /\ batch = << >>
    /\ upc = "idle"

\* lines 315-322: the textarea, disabled while uploading
SetInput ==
    /\ ~isUploading
    /\ \E text \in ChatInputs : input' = text
    /\ UNCHANGED <<files, isLoading, selectedApi, results, submits, sent, clientVars, chatRest>>
    /\ Render

\* lines 250-254: the file input, disabled while uploading
SetFiles ==
    /\ ~isUploading
    /\ \E list \in FileLists : files' = list
    /\ UNCHANGED <<input, isLoading, selectedApi, results, submits, sent, clientVars, chatRest>>
    /\ Render

\* lines 227-230: the radio group, enabled at all times
OnValueChange ==
    /\ \E value \in EndpointUrls : selectedApi' = value
    /\ results' = EmptyString
    /\ UNCHANGED <<input, files, isLoading, submits, sent, clientVars, chatRest>>
    /\ Render

\* lines 131-133 without the test of isLoading
GuardInputOnly == Blank(input)

\* lines 131-133
Guard == isLoading \/ Blank(input)

\* lines 124-172 and 186-193: a submit event, up to the call of fetchFromEndpoint
OnSubmit ==
    /\ submits < MaxSubmits
    /\ submits' = submits + 1
    /\ IF Guard
       THEN UNCHANGED <<input, files, isLoading, selectedApi, results, sent, shown, clientVars>>
       ELSE IF selectedApi = ENDPOINTS.PLAN_BUDGET /\ InvalidAmount(PlanAmount(input))
       THEN /\ results' = InvalidPlanAmount
            /\ isLoading' = FALSE
            /\ UNCHANGED <<input, files, selectedApi, sent, clientVars>>
            /\ Render
       ELSE /\ isLoading' = TRUE
            /\ FetchCall(selectedApi,
                         IF selectedApi = ENDPOINTS.PLAN_BUDGET
                         THEN BudgetBody(PlanAmount(input), input)
                         ELSE QueryBody(input))
            /\ sent' = sent + 1
            /\ UNCHANGED <<input, files, selectedApi, results, response, outcome>>
            /\ Render
    /\ UNCHANGED chatRest

\* the continuation without line 210 after a failed request
SettleLoadingOnFailure ==
    /\ fpc = "settled"
    /\ sent > 0
    /\ IF outcome.kind = "returned"
       THEN /\ results' = Answer(endpoint, outcome.value)
            /\ input' = << >>
            /\ files' = << >>
       ELSE /\ results' = RequestFailed
            /\ UNCHANGED <<input, files>>
    /\ isLoading' = (outcome.kind # "returned")
    /\ sent' = sent - 1
    /\ endpoint' = << >>
    /\ request' = NoRequest
    /\ response' = NoResponse
    /\ outcome' = NoOutcome
    /\ fpc' = "idle"
    /\ UNCHANGED <<selectedApi, submits, chatRest>>
    /\ Render

\* lines 173-185 and 194-207, then 210: the awaited call has returned or thrown
Settle ==
    /\ fpc = "settled"
    /\ sent > 0
    /\ IF outcome.kind = "returned"
       THEN /\ results' = Answer(endpoint, outcome.value)
            /\ input' = << >>
            /\ files' = << >>
       ELSE /\ results' = RequestFailed
            /\ UNCHANGED <<input, files>>
    /\ isLoading' = FALSE
    /\ sent' = sent - 1
    /\ endpoint' = << >>
    /\ request' = NoRequest
    /\ response' = NoResponse
    /\ outcome' = NoOutcome
    /\ fpc' = "idle"
    /\ UNCHANGED <<selectedApi, submits, chatRest>>
    /\ Render

NextChat ==
    \/ SetInput
    \/ SetFiles
    \/ OnValueChange
    \/ OnSubmit
    \/ FetchFulfilled
    \/ FetchRejected
    \/ ReadErrorBody
    \/ ReadBody
    \/ Settle

SpecChat == InitChat /\ [][NextChat]_vars

\* the request promise settles, and the continuations of the awaits run
SpecChatLive ==
    /\ InitChat
    /\ [][NextChat]_vars
    /\ WF_vars(FetchFulfilled \/ FetchRejected)
    /\ WF_vars(ReadErrorBody)
    /\ WF_vars(ReadBody)
    /\ WF_vars(Settle)

\* ------------------------------------------------------------------------
\* InvoiceChat: onUpload (invoice-chat.tsx lines 58-114)
\* ------------------------------------------------------------------------
\* files of one call
MaxFiles == 2

\* line 77
totalChunks == 10

\* line 89 evaluated before line 88
ProgressBeforeIncrement(uploadedChunks) == ((uploadedChunks - 1) * 100) \div totalChunks

\* line 89: (uploadedChunks / totalChunks) * 100; the floating-point results
\* are in the order of these and the last one is exactly 100
Progress(uploadedChunks) == (uploadedChunks * 100) \div totalChunks

\* lines 75-78: the upload of a file as its async function starts, with no
\* call of onProgress, onSuccess or onError made yet
NewUpload ==
    [at |-> "chunk", uploadedChunks |-> 0, progress |-> 0, reports |-> 0,
     rising |-> TRUE, succeeded |-> 0, failed |-> 0, threw |-> FALSE]

\* what onUpload leaves alone
uploadRest == <<linkerVars, panelVars, parked, clientVars, chatVars, shown>>

InitUpload ==
    /\ LinkerIdle
    /\ PanelIdle
    /\ PairIdle
    /\ ClientIdle
    /\ input = << >>
    /\ files = << >>
    /\ isLoading = FALSE
    /\ selectedApi = ENDPOINTS.DECODE
    /\ results = Null
    /\ submits = 0
    /\ sent = 0
    /\ shown = ResultsDisplay(ENDPOINTS.DECODE, Null, FALSE)
    /\ isUploading = FALSE
    /\ batch = << >>
    /\ upc = "idle"

\* lines 71-74, 105-107: FileUpload, disabled while isUploading, hands over a
\* list of files; in the model a call starts when none is running
OnUpload ==
    /\ ~isUploading
    /\ upc # "running"
    /\ \E n \in 0..MaxFiles : batch' = [f \in 1..n |-> NewUpload]
    /\ isUploading' = TRUE
    /\ upc' = "running"
    /\ UNCHANGED uploadRest

\* lines 81-91: the delay of a chunk of some file is over
Chunk ==
    \E f \in DOMAIN batch :
        /\ batch[f].at = "chunk"
        /\ LET uploadedChunks == batch[f].uploadedChunks + 1
               progress == Progress(uploadedChunks)
           IN  batch' = [batch EXCEPT ![f] =
                   [@ EXCEPT !.uploadedChunks = uploadedChunks,
                             !.progress = progress,
                             !.reports = @ + 1,
                             !.rising = @ /\ progress > batch[f].progress,
                             !.at = IF uploadedChunks < totalChunks
                                    THEN "chunk" ELSE "processing"]]
        /\ UNCHANGED <<isUploading, upc, uploadRest>>

\* lines 88-90, 96-103: the callback onProgress throws
ChunkThrows ==
    \E f \in DOMAIN batch :
        /\ batch[f].at = "chunk"
        /\ LET uploadedChunks == batch[f].uploadedChunks + 1
               progress == Progress(uploadedChunks)
           IN  batch' = [batch EXCEPT ![f] =
                   [@ EXCEPT !.uploadedChunks = uploadedChunks,
                             !.progress = progress,
                             !.reports = @ + 1,
                             !.rising = @ /\ progress > batch[f].progress,
                             !.threw = TRUE,
                             !.failed = @ + 1,
                             !.at = "over"]]
        /\ isUploading' = FALSE
        /\ UNCHANGED <<upc, uploadRest>>

\* lines 94-95, 101-103: the processing delay of some file is over
Processed ==
    \E f \in DOMAIN batch :
        /\ batch[f].at = "processing"
        /\ batch' = [batch EXCEPT ![f] = [@ EXCEPT !.succeeded = @ + 1, !.at = "over"]]
        /\ isUploading' = FALSE
        /\ UNCHANGED <<upc, uploadRest>>

\* line 107: every promise of the call is settled
Returned ==
    /\ upc = "running"
    /\ \A f \in DOMAIN batch : batch[f].at = "over"
    /\ upc' = "returned"
    /\ UNCHANGED <<isUploading, batch, uploadRest>>

NextUpload == OnUpload \/ Chunk \/ ChunkThrows \/ Processed \/ Returned

SpecUpload == InitUpload /\ [][NextUpload]_vars

\* the timers fire and the continuations of the awaits run
SpecUploadLive ==
    /\ InitUpload
    /\ [][NextUpload]_vars
    /\ WF_vars(Chunk \/ ChunkThrows)
    /\ WF_vars(Processed)
    /\ WF_vars(Returned)

\* ------------------------------------------------------------------------
\* Vocabulary of the properties
\* ------------------------------------------------------------------------
Range(q) == {q[i] : i \in 1..Len(q)}

OrigIds == 1..Len(tree0)

Replacements == 1..Len(replaced)

HasParent(h, c) == \E p \in 1..Len(h) : c \in Range(h[p].children)
ParentOf(h, c) == CHOOSE p \in 1..Len(h) : c \in Range(h[p].children)
\* 0-based index of c among the children of its parent
IndexOf(h, c) == (CHOOSE i \in 1..Len(h[ParentOf(h, c)].children) :
                      h[ParentOf(h, c)].children[i] = c) - 1

RECURSIVE HasLinkAncestor(_, _)
HasLinkAncestor(h, c) ==
    /\ HasParent(h, c)
    /\ \/ h[ParentOf(h, c)].type = "link"
       \/ HasLinkAncestor(h, ParentOf(h, c))

RECURSIVE TextOf(_, _)
RECURSIVE ConcatText(_, _)
\* the text content of a node: its value, or that of its children in order
TextOf(h, id) ==
    IF h[id].type = "text" THEN h[id].value ELSE ConcatText(h, h[id].children)
ConcatText(h, ids) ==
    IF ids = << >> THEN << >> ELSE TextOf(h, Head(ids)) \o ConcatText(h, Tail(ids))

\* the number of characters of the replacement that precede its j-th node
OffsetIn(h, ids, j) == Len(ConcatText(h, SubSeq(ids, 1, j - 1)))

DecimalDigits == {"0", "1", "2", "3", "4", "5", "6", "7", "8", "9"}

\* s[p..e] (1-based, inclusive) is '[' + one or more decimal digits + ']'
IsCitationAt(s, p, e) ==
    /\ p + 2 <= e
    /\ s[p] = "["
    /\ s[e] = "]"
    /\ \A k \in (p + 1)..(e - 1) : s[k] \in DecimalDigits

Citations(s) ==
    {pe \in (1..Len(s)) \X (1..Len(s)) : IsCitationAt(s, pe[1], pe[2])}

\* the k-th citation of s from the left
NthCitation(s, k) ==
    CHOOSE pe \in Citations(s) :
        Cardinality({q \in Citations(s) : q[1] < pe[1]}) = k - 1

IsLinkAt(h, ids, j) == h[ids[j]].type = "link"
LinksBefore(h, ids, j) == Cardinality({i \in 1..(j - 1) : IsLinkAt(h, ids, i)})
LinkCount(h, ids) == LinksBefore(h, ids, Len(ids) + 1)

ReplacedValue(k) == nodes[replaced[k].node].value

\* ------------------------------------------------------------------------
\* Properties
\* ------------------------------------------------------------------------

\* C1: for every replaced text node, the text content of the replacement
\* sequence, concatenated in order (link nodes contribute the value of their
\* child text node), is exactly the original value of the replaced node.
C1_RoundTrip ==
    \A k \in Replacements :
        ConcatText(nodes, replaced[k].created) = ReplacedValue(k)

\* a replacement made of text, link and trailing text
W_C1_RoundTrip ==
    \E k \in Replacements :
        /\ Len(replaced[k].created) >= 3
        /\ ~IsLinkAt(nodes, replaced[k].created, 1)
        /\ ~IsLinkAt(nodes, replaced[k].created, Len(replaced[k].created))

\* C2: every text node of the input tree that is a direct or transitive
\* descendant of a link node is left unmodified: it is never split, and no
\* link node is created beneath an existing link node.
C2_LinkDescendantsKept ==
    /\ \A k \in Replacements : ~HasLinkAncestor(tree0, replaced[k].node)
    /\ \A q \in 1..Len(nodes) :
           (q \notin OrigIds /\ nodes[q].type = "link") => ~HasLinkAncestor(nodes, q)

\* C3: a text node whose parent is a link node is never scanned, split or
\* rewritten, whatever its value, and the child sequence of the link stays
\* what it was.
C3_LinkChildrenKept ==
    \A l \in OrigIds :
        tree0[l].type = "link" =>
            /\ nodes[l].children = tree0[l].children
            /\ \A c \in Range(tree0[l].children) :
                   tree0[c].type = "text" =>
                       /\ nodes[c] = tree0[c]
                       /\ c \notin Range(scanned)
                       /\ \A k \in Replacements : replaced[k].node # c

\* the traversal is over and a link had a text child that holds a citation
W_C3_LinkChildrenKept ==
    /\ pc = "done"
    /\ \E l \in OrigIds :
           /\ tree0[l].type = "link"
           /\ \E c \in Range(tree0[l].children) :
                  /\ tree0[c].type = "text"
                  /\ Citations(tree0[c].value) # {}

\* C4: in a rewritten text node the created links correspond one-to-one and
\* in order to the occurrences of '[' digits ']' in its value: the k-th link
\* carries the k-th occurrence and sits at its position; the plain text nodes
\* of the replacement hold no occurrence; and when the transform is over no
\* text node whose parent is not a link contains an occurrence.
C4_LinksAreCitations ==
    /\ \A k \in Replacements :
           LET s   == ReplacedValue(k)
               ids == replaced[k].created
           IN  /\ LinkCount(nodes, ids) = Cardinality(Citations(s))
               /\ \A j \in 1..Len(ids) :
                      IF IsLinkAt(nodes, ids, j)
                      THEN LET pe == NthCitation(s, LinksBefore(nodes, ids, j) + 1)
                           IN  /\ OffsetIn(nodes, ids, j) = pe[1] - 1
                               /\ TextOf(nodes, ids[j]) = SubSeq(s, pe[1], pe[2])
                      ELSE /\ nodes[ids[j]].type = "text"
                           /\ Citations(nodes[ids[j]].value) = {}
    /\ pc = "done" =>
           \A p \in 1..Len(nodes) :
               nodes[p].type # "link" =>
                   \A c \in Range(nodes[p].children) :
                       nodes[c].type = "text" => Citations(nodes[c].value) = {}

\* a rewritten value with a citation and with a bracket that opens no
\* citation ("[a]", "[]", "[1a]")
W_C4_LinksAreCitations ==
    \E k \in Replacements :
        LET s == ReplacedValue(k)
        IN  /\ Citations(s) # {}
            /\ \E p \in 1..Len(s) :
                   /\ s[p] = "["
                   /\ \A pe \in Citations(s) : pe[1] # p

\* C5: every created link has url "#ref-" followed by the digits of its match,
\* copied verbatim (leading zeros kept), and exactly one child, a text node
\* whose value is the whole matched substring with both brackets.
C5_LinkShape ==
    \A k \in Replacements :
        LET s   == ReplacedValue(k)
            ids == replaced[k].created
        IN  \A j \in 1..Len(ids) :
                IsLinkAt(nodes, ids, j) =>
                    LET ln  == nodes[ids[j]]
                        off == OffsetIn(nodes, ids, j)
                    IN  /\ Len(ln.children) = 1
                        /\ nodes[ln.children[1]].type = "text"
                        /\ LET v == nodes[ln.children[1]].value
                           IN  /\ IsCitationAt(v, 1, Len(v))
                               /\ v = SubSeq(s, off + 1, off + Len(v))
                               /\ ln.url = <<"#", "r", "e", "f", "-">>
                                              \o SubSeq(v, 2, Len(v) - 1)

\* a created link for a citation with a leading zero
W_C5_LinkShape ==
    \E k \in Replacements :
        \E j \in 1..Len(replaced[k].created) :
            /\ IsLinkAt(nodes, replaced[k].created, j)
            /\ LET v == TextOf(nodes, replaced[k].created[j])
               IN  Len(v) >= 4 /\ v[2] = "0"

\* the original text nodes that hold no citation
PlainTexts == {t \in OrigIds : tree0[t].type = "text" /\ Citations(tree0[t].value) = {}}

RECURSIVE GrowthBefore(_, _, _)
\* the nodes that the first k replacements added in front of original index i0
\* of parent p
GrowthBefore(p, i0, k) ==
    IF k = 0 THEN 0
    ELSE GrowthBefore(p, i0, k - 1) +
         ( IF /\ replaced[k].parent = p
              /\ replaced[k].node \in OrigIds
              /\ IndexOf(tree0, replaced[k].node) < i0
           THEN Len(replaced[k].created) - 1
           ELSE 0 )

\* C6 as stated: a text node without a citation is left byte-identical and at
\* the same index of its parent; a tree without citations is unchanged.
C6_SameIndex ==
    /\ \A t \in PlainTexts :
           /\ nodes[t] = tree0[t]
           /\ HasParent(nodes, t)
           /\ ParentOf(nodes, t) = ParentOf(tree0, t)
           /\ IndexOf(nodes, t) = IndexOf(tree0, t)
    /\ (\A t \in OrigIds : tree0[t].type = "text" => t \in PlainTexts)
           => nodes = tree0

\* C6 amended: a text node without a citation is never replaced, is left
\* byte-identical and stays a child of the same parent; its index is its
\* original index plus the number of nodes that replacements of earlier
\* siblings added; a tree without citations is unchanged.
C6_KeptInPlace ==
    /\ \A t \in PlainTexts :
           /\ nodes[t] = tree0[t]
           /\ \A k \in Replacements : replaced[k].node # t
           /\ HasParent(nodes, t)
           /\ LET p  == ParentOf(tree0, t)
                  i0 == IndexOf(tree0, t)
                  ch == nodes[p].children
              IN  /\ ParentOf(nodes, t) = p
                  /\ Cardinality({i \in 1..Len(ch) : ch[i] = t}) = 1
                  /\ IndexOf(nodes, t) = i0 + GrowthBefore(p, i0, Len(replaced))
    /\ (\A t \in OrigIds : tree0[t].type = "text" => t \in PlainTexts)
           => nodes = tree0

\* the traversal is over, a text node without a citation was scanned, and an
\* earlier sibling of it was replaced by more than one node
W_C6_KeptInPlace ==
    /\ pc = "done"
    /\ \E t \in PlainTexts :
           /\ t \in Range(scanned)
           /\ GrowthBefore(ParentOf(tree0, t), IndexOf(tree0, t), Len(replaced)) > 0

\* C7: a replacement leaves the children before the replaced node and the
\* children after it unchanged and in order, with the replacement sequence
\* between them, and changes no other node; the k-th link of the replacement
\* points at the k-th citation of the value.
C7_SpliceInPlace ==
    [][ Len(replaced') > Len(replaced) =>
          LET r   == replaced'[Len(replaced')]
              old == nodes[r.parent].children
              new == nodes'[r.parent].children
              i   == r.index
              n   == Len(r.created)
              s   == nodes[r.node].value
          IN  /\ old[i + 1] = r.node
              /\ Len(new) = Len(old) - 1 + n
              /\ \A j \in 1..i : new[j] = old[j]
              /\ \A j \in 1..n : new[i + j] = r.created[j]
              /\ \A j \in (i + 2)..Len(old) : new[j + n - 1] = old[j]
              /\ \A q \in 1..Len(nodes) :
                     nodes'[q] = IF q = r.parent
                                 THEN [nodes[q] EXCEPT !.children = new]
                                 ELSE nodes[q]
              /\ \A j \in 1..n :
                     IsLinkAt(nodes', r.created, j) =>
                         LET pe == NthCitation(s, LinksBefore(nodes', r.created, j) + 1)
                         IN  nodes'[r.created[j]].url =
                                 <<"#", "r", "e", "f", "-">> \o SubSeq(s, pe[1] + 1, pe[2] - 1)
      ]_vars

\* a replacement with three links, made between two other children
W_C7_SpliceInPlace ==
    \E k \in Replacements :
        /\ replaced[k].index > 0
        /\ LinkCount(nodes, replaced[k].created) >= 3
        /\ Len(nodes[replaced[k].parent].children)
               > replaced[k].index + Len(replaced[k].created)

\* the nodes a replacement created, with the children of its links
CreatedBy(k) ==
    Range(replaced[k].created)
      \cup UNION {Range(nodes[c].children) : c \in Range(replaced[k].created)}

ScannedOnlyOriginals ==
    /\ Range(scanned) \subseteq OrigIds
    /\ \A k \in Replacements : CreatedBy(k) \cap Range(scanned) = {}

\* C8: the nodes a replacement inserts are never scanned: after a replacement
\* the traversal resumes at the sibling that followed the replaced node (or
\* at the end of the child sequence), and no created text node, created link
\* or child of a created link ever reaches the scan.
C8_NoRescan ==
    [][ /\ ScannedOnlyOriginals
        /\ ScannedOnlyOriginals'
        /\ Len(replaced') > Len(replaced) =>
             LET r   == replaced'[Len(replaced')]
                 old == nodes[r.parent].children
                 new == nodes'[r.parent].children
                 off == stack'[Len(stack')].offset
             IN  /\ stack'[Len(stack')].node = r.parent
                 /\ IF r.index + 1 < Len(old)
                    THEN off < Len(new) /\ new[off + 1] = old[r.index + 2]
                    ELSE off = Len(new)
      ]_vars

\* the traversal is over, a replacement created a plain text node, and the
\* sibling that followed the replaced node was scanned
W_C8_NoRescan ==
    /\ pc = "done"
    /\ \E k \in Replacements :
           /\ \E c \in Range(replaced[k].created) : nodes[c].type = "text"
           /\ LET ch == nodes[replaced[k].parent].children
                  nx == replaced[k].index + Len(replaced[k].created) + 1
              IN  nx <= Len(ch) /\ ch[nx] \in Range(scanned)

Count(q, x) == Cardinality({i \in 1..Len(q) : q[i] = x})

\* the original text nodes whose parent is not a link
LinkableTexts ==
    {t \in OrigIds : tree0[t].type = "text" /\ tree0[ParentOf(tree0, t)].type # "link"}

\* C9: no original text node is scanned twice, and when the traversal is over
\* every original text node whose parent is not a link has been scanned
\* exactly once, whatever the replacements of its earlier siblings inserted.
C9_EachOnce ==
    /\ \A t \in OrigIds : Count(scanned, t) <= 1
    /\ pc = "done" => \A t \in LinkableTexts : Count(scanned, t) = 1

\* the traversal is over and a text node was scanned whose preceding sibling,
\* a text node too, was replaced by two nodes or more
W_C9_EachOnce ==
    /\ pc = "done"
    /\ \E k \in Replacements :
           LET t  == replaced[k].node
               ch == tree0[ParentOf(tree0, t)].children
               i  == IndexOf(tree0, t)
           IN  /\ Len(replaced[k].created) >= 2
               /\ i + 2 <= Len(ch)
               /\ tree0[ch[i + 2]].type = "text"
               /\ Count(scanned, ch[i + 2]) = 1

\* C10: no created text node has an empty value: a citation at the start of
\* the value makes the replacement start with a link, one at the end makes it
\* end with a link, and two adjacent citations give two consecutive links.
C10_NoEmptyText ==
    /\ \A q \in 1..Len(nodes) :
           (q \notin OrigIds /\ nodes[q].type = "text") => nodes[q].value # << >>
    /\ \A k \in Replacements :
           LET s   == ReplacedValue(k)
               ids == replaced[k].created
           IN  /\ (\E pe \in Citations(s) : pe[1] = 1) => IsLinkAt(nodes, ids, 1)
               /\ (\E pe \in Citations(s) : pe[2] = Len(s)) => IsLinkAt(nodes, ids, Len(ids))
               /\ \A pe, pf \in Citations(s) :
                      pf[1] = pe[2] + 1 =>
                          \E j \in 1..(Len(ids) - 1) :
                              /\ IsLinkAt(nodes, ids, j)
                              /\ IsLinkAt(nodes, ids, j + 1)
                              /\ OffsetIn(nodes, ids, j) = pe[1] - 1
                              /\ OffsetIn(nodes, ids, j + 1) = pf[1] - 1

\* a replaced value that starts with a citation, ends with one and has two
\* adjacent ones
W_C10_NoEmptyText ==
    \E k \in Replacements :
        LET s == ReplacedValue(k)
        IN  /\ \E pe \in Citations(s) : pe[1] = 1
            /\ \E pe \in Citations(s) : pe[2] = Len(s)
            /\ \E pe, pf \in Citations(s) : pf[1] = pe[2] + 1

\* C11: a text node with m >= 1 citations is replaced by a sequence with
\* exactly m links and between m and 2m+1 nodes; the sequence has one node
\* exactly when the whole value is one citation.
C11_ReplacementSize ==
    \A k \in Replacements :
        LET s   == ReplacedValue(k)
            ids == replaced[k].created
            m   == Cardinality(Citations(s))
        IN  /\ m >= 1
            /\ LinkCount(nodes, ids) = m
            /\ m <= Len(ids)
            /\ Len(ids) <= 2 * m + 1
            /\ Len(ids) = 1 <=> IsCitationAt(s, 1, Len(s))

\* one replacement of a single node and one of 2m+1 nodes
W_C11_ReplacementSize ==
    /\ \E k \in Replacements : Len(replaced[k].created) = 1
    /\ \E k \in Replacements :
           Len(replaced[k].created) = 2 * Cardinality(Citations(ReplacedValue(k))) + 1

\* C12: a second application of the transform to a tree it has transformed
\* replaces nothing and leaves every node as it was.
C12_Idempotent ==
    pass >= 2 => /\ nodes = tree0
                 /\ replaced = << >>

\* the second application is over, on a tree in which the first one created a
\* link
W_C12_Idempotent ==
    /\ pass = 2
    /\ pc = "done"
    /\ \E q \in 1..Len(nodes) :
           /\ nodes[q].type = "link"
           /\ Len(nodes[q].url) > 5
           /\ SubSeq(nodes[q].url, 1, 5) = <<"#", "r", "e", "f", "-">>

\* C13: in a panel that renders markdown through the transform, every link
\* target "#ref-n" the transform emits has an anchor element with id "ref-n"
\* in the same panel.
C13_AnchorsForLinks ==
    \A q \in 1..Len(nodes) :
        ( /\ nodes[q].type = "link"
          /\ Len(nodes[q].url) > 5
          /\ SubSeq(nodes[q].url, 1, 5) = <<"#", "r", "e", "f", "-">> )
        => \E i \in 1..Len(anchors) : anchors[i] = Tail(nodes[q].url)

\* the call lastCall records was told of no parent, of a parent without an
\* array of children, or of an index that is not a number
Detached(h, call) ==
    \/ call.parent = 0
    \/ call.parent # 0 /\ ~HasChildren(h[call.parent])
    \/ call.index = -1

\* C14: a call of the visitor that is told of no parent, of a parent without
\* an array of children or of a non-numeric index changes nothing in the tree,
\* raises nothing, and the traversal goes on with the next sibling (or ends
\* normally when the node was the whole tree).
C14_DetachedSkipped ==
    [][ (lastCall' # lastCall /\ Detached(nodes, lastCall'))
        => /\ nodes' = nodes
           /\ replaced' = replaced
           /\ pc' # "threw"
           /\ IF stack = << >>
              THEN pc' = "done"
              ELSE pc' = "visiting" /\ stack' = SetOffset(stack, Top.offset + 1) ]_vars

\* the traversal is over; the visitor was told of a missing parent, of a
\* childless parent and of a missing index for text holding a citation, and a
\* later text node was still replaced
W_C14_DetachedSkipped ==
    /\ pc = "done"
    /\ Len(declined) >= 1
    /\ Len(replaced) >= 1
    /\ Detached(nodes, lastCall)
    /\ lastCall.parent # 0
    /\ Citations(StringOf(nodes[lastCall.node].value)) # {}
    /\ \E i \in 1..Len(replaced) : replaced[i].node > declined[1]

\* the identities of the nodes that were replaced
ReplacedIds == {replaced[i].node : i \in Replacements}

\* C15: the transform raises nothing; a text node whose value is missing is
\* never replaced and stays as it was, and when the traversal is over every
\* other text node with a citation whose parent is not a link, and that the
\* visitor was given with its parent and index, has been replaced.
C15_NeverThrows ==
    /\ pc # "threw"
    /\ \A t \in OrigIds :
          (tree0[t].type = "text" /\ tree0[t].value = Undefined)
          => /\ nodes[t] = tree0[t]
             /\ t \notin ReplacedIds
             /\ HasParent(tree0, t) => /\ HasParent(nodes, t)
                                       /\ ParentOf(nodes, t) = ParentOf(tree0, t)
    /\ pc = "done"
       => \A t \in OrigIds :
             ( /\ tree0[t].type = "text"
               /\ HasParent(tree0, t)
               /\ tree0[ParentOf(tree0, t)].type # "link"
               /\ tree0[t].value # Undefined
               /\ Citations(tree0[t].value) # {}
               /\ t \notin Range(declined) )
             => t \in ReplacedIds

\* the traversal is over, a text node without a value was scanned and left,
\* and a sibling after it was replaced
W_C15_NeverThrows ==
    /\ pc = "done"
    /\ \E t \in Range(scanned) :
          /\ tree0[t].value = Undefined
          /\ \E u \in ReplacedIds : u > t /\ ParentOf(tree0, u) = ParentOf(tree0, t)

RECURSIVE TreeOf(_, _)
\* the tree below node id of heap h as a value: identities left out
TreeOf(h, id) ==
    [type |-> h[id].type, value |-> h[id].value, url |-> h[id].url,
     children |-> [i \in 1..Len(h[id].children) |-> TreeOf(h, h[id].children[i])]]

RECURSIVE PiecesFrom(_, _, _)
\* what replaces the text s from its k-th citation on, the characters before
\* position from (1-based) being already covered
PiecesFrom(s, k, from) ==
    IF k > Cardinality(Citations(s))
    THEN IF from <= Len(s)
         THEN << [type |-> "text", value |-> SubSeq(s, from, Len(s)),
                  url |-> << >>, children |-> << >>] >>
         ELSE << >>
    ELSE LET pe == NthCitation(s, k)
         IN  ( IF pe[1] > from
               THEN << [type |-> "text", value |-> SubSeq(s, from, pe[1] - 1),
                        url |-> << >>, children |-> << >>] >>
               ELSE << >> )
             \o << [type |-> "link", value |-> << >>,
                    url |-> <<"#", "r", "e", "f", "-">> \o SubSeq(s, pe[1] + 1, pe[2] - 1),
                    children |-> << [type |-> "text", value |-> SubSeq(s, pe[1], pe[2]),
                                     url |-> << >>, children |-> << >>] >> ] >>
             \o PiecesFrom(s, k + 1, pe[2] + 1)

RECURSIVE LinkedTree(_, _)
RECURSIVE LinkedChildren(_, _, _)
\* the tree below node id of h with the citations linked, as a function of h
\* alone: each text child of a node that is not a link, if it holds a
\* citation, gives way to its pieces
LinkedTree(h, id) ==
    [type |-> h[id].type, value |-> h[id].value, url |-> h[id].url,
     children |-> LinkedChildren(h, id, h[id].children)]
LinkedChildren(h, id, ids) ==
    IF ids = << >> THEN << >>
    ELSE LET c == Head(ids)
         IN  ( IF /\ h[c].type = "text"
                  /\ h[id].type # "link"
                  /\ Citations(h[c].value) # {}
               THEN PiecesFrom(h[c].value, 1, 1)
               ELSE << LinkedTree(h, c) >> )
             \o LinkedChildren(h, id, Tail(ids))

\* C16: invocations share nothing: however the calls of the visitor of two
\* invocations on two trees interleave, each invocation ends with the tree
\* that is a function of its own input tree alone, which is the tree it ends
\* with when it runs alone.
C16_Isolated ==
    /\ pc = "done" => TreeOf(nodes, 1) = LinkedTree(tree0, 1)
    /\ parked.pc = "done" => TreeOf(parked.nodes, 1) = LinkedTree(parked.tree0, 1)

\* both invocations are over, each has replaced nodes, and the last call of
\* the visitor of the one that ended first came after replacements of the other
W_C16_Isolated ==
    /\ pc = "done"
    /\ parked.pc = "done"
    /\ Len(replaced) >= 2
    /\ Len(parked.replaced) >= 2
    /\ lastCall.result = "replaced"
    /\ nodes # parked.nodes

\* in every text value and from every position, a match of the pattern ends
\* after the position the search started from: the cursor of the scan loop
\* strictly advances
ScanAdvances ==
    \A t \in 1..Len(nodes) :
        nodes[t].type = "text"
        => \A from \in 0..Len(nodes[t].value) :
              LET match == Exec(nodes[t].value, from)
              IN  match.index # -1
                  => /\ match.index >= from
                     /\ match.lastIndex > match.index
                     /\ match.lastIndex <= Len(nodes[t].value)

\* C17: on every input tree the transform terminates: each match moves the
\* cursor of the scan loop forward, and the traversal, though sibling lists
\* grow under it, reaches its end.
C17_Terminates == [] ScanAdvances /\ <>(pc = "done")

\* the traversal is over on a tree where two sibling lists grew under it
W_C17_Terminates ==
    /\ pc = "done"
    /\ Len(replaced) >= 2
    /\ Len(nodes) >= Len(tree0) + 4
    /\ \E i, j \in Replacements : replaced[i].parent # replaced[j].parent

\* C18: a response that is not OK becomes a thrown Error with the status in
\* its message, whether or not the error body is JSON; a value is returned only
\* for an OK response and is its parsed body; a rejection of fetch (network
\* failure, abort) is thrown to the caller as it is.
C18_ErrorsThrown ==
    fpc = "settled"
    => /\ outcome.kind \in {"returned", "threw"}
       /\ (response.kind = "response" /\ ~(response.status \in 200..299))
          => /\ outcome.kind = "threw"
             /\ outcome.error = <<"HTTP error! status: ", response.status>>
       /\ outcome.kind = "returned"
          => /\ response.kind = "response"
             /\ response.status \in 200..299
             /\ response.json = "valid"
             /\ outcome.value = response.body
       /\ response.kind = "rejected"
          => /\ outcome.kind = "threw"
             /\ outcome.error = response.error

\* a response that is not OK and whose body is not JSON has become the Error
\* with the status
W_C18_ErrorsThrown ==
    /\ fpc = "settled"
    /\ response.kind = "response"
    /\ response.status = 500
    /\ response.json = "invalid"
    /\ outcome = [kind |-> "threw", error |-> <<"HTTP error! status: ", 500>>]

IsSlashes(s) == \A i \in 1..Len(s) : s[i] = "/"

\* t is s without slashes at its end
WithoutTrailing(s, t) ==
    /\ \E i \in 0..Len(s) : t = SubSeq(s, 1, i) /\ IsSlashes(SubSeq(s, i + 1, Len(s)))
    /\ t # << >> => t[Len(t)] # "/"

\* t is s without slashes at its start and at its end
WithoutOuter(s, t) ==
    /\ \E i \in 0..Len(s), j \in 0..Len(s) :
          /\ i <= j
          /\ t = SubSeq(s, i + 1, j)
          /\ IsSlashes(SubSeq(s, 1, i))
          /\ IsSlashes(SubSeq(s, j + 1, Len(s)))
    /\ t # << >> => t[1] # "/" /\ t[Len(t)] # "/"

\* the base URL: the variable of the environment, the default without it
BaseUrl ==
    IF env = << >>
    THEN <<"https:", "/", "/", "decode-ndis-perplexity.onrender.com">>
    ELSE env

\* C19: the request URL is the base URL without its trailing slashes, one
\* "/", and the endpoint without its leading and trailing slashes; what is
\* inside the endpoint, slashes included, is kept.
C19_UrlJoin ==
    fpc # "idle"
    => \E b \in {SubSeq(BaseUrl, 1, i) : i \in 0..Len(BaseUrl)},
          e \in {SubSeq(endpoint, i + 1, j) : i \in 0..Len(endpoint), j \in 0..Len(endpoint)} :
          /\ WithoutTrailing(BaseUrl, b)
          /\ WithoutOuter(endpoint, e)
          /\ request.url = b \o <<"/">> \o e

\* a base with two trailing slashes and an endpoint with slashes at both ends
\* and one inside have been joined
W_C19_UrlJoin ==
    /\ fpc # "idle"
    /\ env = <<"a", "/", "/">>
    /\ endpoint = <<"/", "a", "/", "a", "/">>
    /\ request.url = <<"a", "/", "a", "/", "a">>

\* README.md lines 182-198: the method documented for each endpoint
DocumentedMethod(e) ==
    IF e = <<"/", "api", "/", "ndis-updates">> THEN "GET" ELSE "POST"

\* C20: a request to one of the four endpoints of the chat client uses the
\* method documented for the endpoint: GET for /api/ndis-updates, POST for the
\* other three.
C20_DocumentedMethod ==
    (fpc # "idle" /\ endpoint \in EndpointUrls)
    => request.method = DocumentedMethod(endpoint)

\* C21: ResultsDisplay shows one view, by priority: the loading skeleton
\* when isLoading, whatever the results; nothing when the results are null or
\* empty; the error panel with results.error when there is one; otherwise the
\* panel of the endpoint, and for an unknown endpoint the title 'NDIS' over an
\* empty body.
C21_ViewPriority ==
    shown.view # "none"
    => /\ shown.view \in {"ResultsLoading", "null", "ResultsError", "panel"}
       /\ isLoading <=> shown.view = "ResultsLoading"
       /\ (~isLoading /\ results \in {[kind |-> "null"], [kind |-> "string", value |-> << >>]})
          <=> shown.view = "null"
       /\ (~isLoading /\ results.kind = "object" /\ results.error # << >>)
          <=> shown.view = "ResultsError"
       /\ shown.view = "ResultsError" => shown.error = results.error
       /\ shown.view = "panel"
          => /\ shown.results = results
             /\ \/ /\ selectedApi = <<"/", "api", "/", "decode">>
                   /\ shown.title = "Decode"
                   /\ shown.body = "ResultsDecode"
                \/ /\ selectedApi = <<"/", "api", "/", "policy-guidance">>
                   /\ shown.title = "Policy & Services Guidance"
                   /\ shown.body = "ResultsPolicy"
                \/ /\ selectedApi = <<"/", "api", "/", "ndis-updates">>
                   /\ shown.title = "NDIS Updates"
                   /\ shown.body = "ResultsUpdates"
                \/ /\ selectedApi = <<"/", "api", "/", "plan-budget">>
                   /\ shown.title = "Budget Planning Assistant"
                   /\ shown.body = "ResultsBudget"
                \/ /\ selectedApi \notin EndpointUrls
                   /\ shown.title = "NDIS"
                   /\ shown.body = "null"

\* the skeleton is shown while an error of an earlier submit is still held
W_C21_ViewPriority ==
    /\ isLoading
    /\ results.kind = "object"
    /\ results.error # << >>
    /\ shown.view = "ResultsLoading"

\* C22: a response that is displayed as a panel was returned by the endpoint
\* that is selected, so it is never rendered with another endpoint's panel
C22_PanelOfItsEndpoint ==
    shown.view = "panel" => shown.results.from = selectedApi

\* C23: a submit while isLoading is true, or with an empty or whitespace-only
\* input, issues no request and changes none of input, files, response and
\* isLoading; at most one request is in flight at any time
C23_GuardedSubmit ==
    /\ [][(submits' = submits + 1 /\ (isLoading \/ Blank(input)))
            => /\ sent' = sent
               /\ request' = request
               /\ fpc' = fpc
               /\ input' = input
               /\ files' = files
               /\ results' = results
               /\ isLoading' = isLoading]_vars
    /\ [](sent <= 1)

W_C23_GuardedSubmit ==
    /\ submits = 2
    /\ sent = 1
    /\ isLoading
    /\ ~Blank(input)
    /\ fpc = "fetching"

\* C24: whenever isLoading is true it eventually returns to false, whether
\* the request succeeds or fails, provided the request promise settles
C24_LoadingEnds == isLoading ~> ~isLoading

\* a submit whose request failed has ended with isLoading false
W_C24_LoadingEnds ==
    /\ submits > 0
    /\ ~isLoading
    /\ results = RequestFailed
    /\ fpc = "idle"

\* C25: when the request of a submit fails, input and files stay as they are
\* and the response becomes the error 'Request failed'; when it succeeds,
\* input and files are cleared and the response becomes the returned JSON;
\* a submit itself never clears input or files
C25_ClearedOnSuccessOnly ==
    [][/\ (fpc = "settled" /\ fpc' = "idle" /\ outcome.kind = "threw")
            => /\ input' = input
               /\ files' = files
               /\ ErrorOf(results') = <<"Request failed">>
       /\ (fpc = "settled" /\ fpc' = "idle" /\ outcome.kind = "returned")
            => /\ input' = << >>
               /\ files' = << >>
               /\ ErrorOf(results') = << >>
               /\ results'.message = outcome.value
               /\ results'.from = endpoint
       /\ submits' # submits
            => /\ input' = input
               /\ files' = files]_vars

\* a failed request has left the text and the file in place
W_C25_ClearedOnSuccessOnly ==
    /\ fpc = "idle"
    /\ ErrorOf(results) = <<"Request failed">>
    /\ ~Blank(input)
    /\ files # << >>

\* C26: with the budget endpoint selected, a submit that passes the guard and
\* whose input yields no plan amount greater than zero sends no request, sets
\* the response to the error 'Invalid plan amount', leaves isLoading false and
\* keeps input and files
C26_InvalidAmountRejected ==
    [][(/\ submits' = submits + 1
        /\ ~isLoading
        /\ ~Blank(input)
        /\ selectedApi = ENDPOINTS.PLAN_BUDGET
        /\ ~(PlanAmount(input).mant > 0))
            => /\ sent' = sent
               /\ request' = request
               /\ fpc' = fpc
               /\ ErrorOf(results') = <<"Invalid plan amount">>
               /\ ~isLoading'
               /\ input' = input
               /\ files' = files]_vars

\* the budget endpoint has rejected a text without an amount
W_C26_InvalidAmountRejected ==
    /\ selectedApi = ENDPOINTS.PLAN_BUDGET
    /\ ErrorOf(results) = <<"Invalid plan amount">>
    /\ input = <<"h", "i">>
    /\ files # << >>
    /\ sent = 0
    /\ ~isLoading

\* a whole or decimal amount followed by k, such as 50k or 1.5k
IsKAmount(s) ==
    /\ Len(s) >= 2
    /\ s[Len(s)] = "k"
    /\ LET i == RunEnd(s, 0, Digits)
       IN  /\ i >= 1
           /\ \/ i = Len(s) - 1
              \/ /\ i < Len(s) - 2
                 /\ s[i + 1] = "."
                 /\ RunEnd(s, i + 1, Digits) = Len(s) - 1

RECURSIVE Pow10(_)
Pow10(n) == IF n = 0 THEN 1 ELSE 10 * Pow10(n - 1)

\* the number mant / 10^exp is a thousand times the amount written before the k
IsThousandTimes(planAmount, s) ==
    LET i    == RunEnd(s, 0, Digits)
        frac == IF i = Len(s) - 1 THEN << >> ELSE Slice(s, i + 1, Len(s) - 1)
    IN  /\ ~planAmount.nan
        /\ planAmount.mant * Pow10(Len(frac))
             = DigitsValue(Slice(s, 0, i) \o frac) * 1000 * Pow10(planAmount.exp)

\* C30: the plan_amount of a budget request whose text is an amount with a k
\* suffix is that amount times 1000
C30_ThousandsSuffix ==
    (/\ Len(request.body) > 0
     /\ request.body[1] = "plan_amount"
     /\ IsKAmount(request.body[4]))
        => IsThousandTimes(request.body[2], request.body[4])

\* C27: during an onUpload call isUploading is never false while some file of
\* the batch is still uploading
C27_UploadingUntilAllDone ==
    (upc = "running" /\ \E f \in DOMAIN batch : batch[f].at # "over") => isUploading

\* C28: every onUpload call eventually leaves isUploading false, for any list
\* of files including the empty list
C28_UploadingEnds == isUploading ~> ~isUploading

\* C29: for each file, onProgress is called once for each chunk, 10 times in
\* all, with strictly increasing percentages that end at 100; onSuccess is
\* called once, after the last report; onError is called only if a step of the
\* file's upload threw; a step of one file changes no other file
C29_UploadReports ==
    /\ [](\A f \in DOMAIN batch :
            LET u == batch[f]
            IN  /\ u.reports = u.uploadedChunks
                /\ u.reports <= 10
                /\ u.rising
                /\ u.progress <= 100
                /\ u.succeeded <= 1
                /\ u.failed <= 1
                /\ u.succeeded = 1 => u.reports = 10 /\ u.progress = 100 /\ u.at = "over"
                /\ u.at = "processing" => u.reports = 10 /\ u.progress = 100
                /\ u.failed = 1 => u.threw
                /\ (u.at = "over" /\ ~u.threw) => u.succeeded = 1
                /\ u.at = "chunk" => u.reports < 10 /\ u.succeeded = 0 /\ u.failed = 0)
    /\ [][upc' = upc => \A f, g \in DOMAIN batch :
                          (batch'[f] # batch[f] /\ batch'[g] # batch[g]) => f = g]_vars

\* one file has reported its ten chunks and succeeded while another one of
\* the batch is in the middle of its chunks
W_C29_UploadReports ==
    \E f, g \in DOMAIN batch :
        /\ batch[f].succeeded = 1
        /\ batch[f].reports = 10
        /\ batch[f].progress = 100
        /\ batch[g].at = "chunk"
        /\ batch[g].reports = 3
        /\ batch[g].progress = 30

====
